---------------------------- MODULE Spec2Model ----------------------------
(***************************************************************************)
(* Deployment reconciliation and dependency ordering of                   *)
(* yateet001/VisaDeployReport (Deploy/Common).                             *)
(*                                                                         *)
(* Two specifications share this module:                                   *)
(*   SortSpec  sort_datapipelines (Kahn's algorithm over the pipeline      *)
(*             reference graph) applied to every small reference graph;    *)
(*   Spec      one run of orchestrator(): workspace resolution, deletion   *)
(*             of old items, deletion confirmation, deploy_artifacts.      *)
(*                                                                         *)
(* Two orchestrators exist in the sources and both are modelled:           *)
(*   variant = "main"    deployment_main.py:241-334 (polls for deletion),  *)
(*   variant = "wsutil"  workspace_utilities.py:444-608 (sleeps 450 s and  *)
(*                       cleans up a workspace it created).                *)
(***************************************************************************)
EXTENDS Integers, Sequences, FiniteSets, TLC

(***************************************************************************)
(* Bounds.                                                                 *)
(***************************************************************************)
\* Largest number of pipelines handed to sort_datapipelines under SortSpec.
NumSortPipelines == 3

\* How often one invoke activity may be repeated in a pipeline body, so that
\* find_referenced_datapipelines returns the same name more than once.
RepeatChoices == {1, 2}

\* Largest number of logical ids that occur in one artifact body of a run.
MaxBodyRefs == 1

(***************************************************************************)
(* Program constants.                                                      *)
(***************************************************************************)
\* poll_item_deletion_status(timeout=600, poll_interval=30), in seconds.
DeletionTimeout == 600
DeletionPollInterval == 30

\* get_workspace_by_name_with_retry(max_retries=3).
MaxLookupRetries == 3

VARIABLES
    sort_pc,        \* "ready" | "returned" | "raised" ("idle" outside SortSpec)
    sort_names,     \* keys of unsorted_pipeline_dict in insertion order
    sort_refs,      \* name -> list returned by find_referenced_datapipelines
    sort_result,    \* the list returned by sort_datapipelines
    pc,             \* position of orchestrator() ("idle" outside Spec)
    variant,        \* which orchestrator runs: "main" | "wsutil"
    ws_existed,     \* the workspace existed before the run
    workspace_id,   \* "none" | "existing" | "new" | "cleaned"
    is_deployment,  \* TRUE on the new-workspace branch (full deployment)
    repo,           \* keys of the artifacts defined in the repository folder
    body,           \* pipeline key -> keys whose logicalId occurs in its content
                    \* (unsorted_pipeline_dict and the files create_data_pipeline reads)
    live,           \* ids of the items that exist in the workspace
    deleted,        \* ids whose delete request was accepted in this run
    items,          \* list returned by list_workspace_all_items (ids)
    del_i,          \* loop index of delete_old_items
    deleted_ids,    \* list built and returned by delete_old_items
    since_pause,    \* delete requests issued since the last rate-limit pause
    items_to_confirm, \* working set of poll_item_deletion_status
    elapsed,        \* time.time() - start_time in poll_item_deletion_status
    last_listing,   \* ids of the latest listing taken by the poll
    absent_seen,    \* a listing taken after the deletions held no deleted id
    lakehouse_dict, \* keys of the lakehouses known to deploy_artifacts
    eventhouse_dict,\* keys of the eventhouses known to deploy_artifacts
    publish_order,  \* list returned by sort_datapipelines inside deploy_pipelines
    pipe_i,         \* index into publish_order of the next pipeline
    guids,          \* the reported-output list built by deploy_artifacts
    calls,          \* every create, update and delete request issued, in order
    submitted,      \* content of the latest item definition sent to the platform
    create_status,  \* HTTP status that answered the latest upsert request when
                    \* it was an accepted create: "201" | "202"; else "none"
    publish_status, \* what poll_environment_publish_status returned to
                    \* deploy_custom_environment; "unset" before it returned
    env_calls,      \* the requests deploy_custom_environment issued, in order
    error,          \* what the run raised: [kind, ids]
    workspaces,     \* ids of the workspaces that exist on the platform
    ws_calls,       \* every workspace lookup, listing, create and delete, in order
    attempt,        \* loop variable of get_workspace_by_name_with_retry
    name_conflict,  \* the workspace name holds one of the words the fallback
                    \* looks for in an error text: "unread" | "yes" | "no"
    poll_pc,        \* position of an operation poll: "start" | "loop" |
                    \* "returned" | "raised" ("idle" outside PollSpec)
    poll_fn,        \* "async" handle_async_creation | "env" poll_environment_publish_status
    initial_poll_interval, \* parameter of poll_environment_publish_status
    max_poll_interval,     \* parameter of poll_environment_publish_status
    maximum_duration,      \* the configured maximum total duration of a poll
    elapsed_time,   \* seconds slept so far
    current_poll_interval, \* local of poll_environment_publish_status
    current_state,  \* local of poll_environment_publish_status ("unbound" before
                    \* its first assignment)
    observed,       \* outcome of every status request of the poll, in order
    sleeps,         \* duration of every time.sleep of the poll, in order
    poll_result,    \* what the poll returned
    poll_error,     \* what the poll raised: [kind, last]
    token_pc,       \* position of a token request: "try" | "returned" | "raised"
                    \* ("idle" outside TokenSpec)
    token_fn,       \* "spn" get_spn_access_token | "upn" get_upn_access_token
    max_retries,    \* parameter of the token functions
    token_attempt,  \* loop variable attempt of the token functions
    response_bound, \* the local response of get_spn_access_token is assigned
    outcomes,       \* outcome of every token request, in order
    delays,         \* duration of every time.sleep of the token function
    token_error,    \* what the token function raised: [kind, attempts, last]
    cancel_signal,  \* the caller of the token function has asked it to stop
    find_pc,        \* position of find_referenced_datapipelines: "ready" |
                    \* "returned" | "raised" ("idle" outside FindSpec)
    activity_chain, \* the activities the pipeline body was written from, each
                    \* nested in the one before: [type, id]
    item_content_dict, \* argument of find_referenced_datapipelines
    reference_list  \* the list find_referenced_datapipelines returned

sortVars == <<sort_pc, sort_names, sort_refs, sort_result>>

runVars == <<pc, variant, ws_existed, workspace_id, is_deployment, repo, body, live, deleted,
             items, del_i, deleted_ids, since_pause, items_to_confirm, elapsed, last_listing,
             absent_seen, lakehouse_dict, eventhouse_dict, publish_order,
             pipe_i, guids, calls, submitted, create_status, error, workspaces, ws_calls,
             attempt, name_conflict, publish_status, env_calls>>

opPollVars == <<poll_pc, poll_fn, initial_poll_interval, max_poll_interval,
                maximum_duration, elapsed_time, current_poll_interval, current_state,
                observed, sleeps, poll_result, poll_error>>

tokenVars == <<token_pc, token_fn, max_retries, token_attempt, response_bound,
               outcomes, delays, token_error, cancel_signal>>

findVars == <<find_pc, activity_chain, item_content_dict, reference_list>>

fnVars == <<opPollVars, tokenVars, findVars>>

vars == <<sortVars, runVars, fnVars>>

(***************************************************************************)
(* Sequence helpers.                                                       *)
(***************************************************************************)
Range(s) == {s[i] : i \in DOMAIN s}

RECURSIVE SetToSeq(_)
\* The elements of a finite set of integers in increasing order.
SetToSeq(S) ==
    IF S = {} THEN <<>>
    ELSE LET m == CHOOSE x \in S : \A y \in S : x <= y
         IN  <<m>> \o SetToSeq(S \ {m})

RECURSIVE Repeat(_, _)
\* Every element of s written r times in a row.
Repeat(s, r) ==
    IF s = <<>> THEN <<>>
    ELSE [i \in 1..r |-> Head(s)] \o Repeat(Tail(s), r)

RECURSIVE CountIn(_, _)
\* Number of occurrences of x in the sequence s.
CountIn(x, s) ==
    IF s = <<>> THEN 0
    ELSE (IF Head(s) = x THEN 1 ELSE 0) + CountIn(x, Tail(s))

(***************************************************************************)
(* sort_datapipelines, workspace_item_utilities.py:651-685.                *)
(***************************************************************************)
RECURSIVE BuildGraph(_, _, _)
\* Lines 659-664: for every item in insertion order and every referenced
\* name, graph[referenced_name].append(item_name).
BuildGraph(names, refs, graph) ==
    IF names = <<>> THEN graph
    ELSE LET item == Head(names)
             g2 == [q \in DOMAIN graph |->
                       graph[q] \o [i \in 1..CountIn(q, refs[item]) |-> item]]
         IN  BuildGraph(Tail(names), refs, g2)

\* Lines 662-667 as a bug would have them: one increment per distinct name.
InDegreeDistinct(names, refs) == [p \in Range(names) |-> Cardinality(Range(refs[p]))]

\* Lines 662-667: in_degree[item_name] is incremented once per entry of the
\* reference list, and set to 0 when the item has none.
InDegree(names, refs) == [p \in Range(names) |-> Len(refs[p])]

RECURSIVE Relax(_, _, _)
\* Lines 675-678: for neighbor in graph[item_name]: decrement, and enqueue the
\* neighbor when its in-degree reaches zero. st = [deg, queue].
Relax(neighbors, deg, queue) ==
    IF neighbors = <<>> THEN [deg |-> deg, queue |-> queue]
    ELSE LET n == Head(neighbors)
             d2 == [deg EXCEPT ![n] = @ - 1]
             q2 == IF d2[n] = 0 THEN Append(queue, n) ELSE queue
         IN  Relax(Tail(neighbors), d2, q2)

RECURSIVE Kahn(_, _, _, _)
\* Lines 672-678: the while loop over zero_in_degree_queue.
Kahn(queue, deg, graph, sorted_items) ==
    IF queue = <<>> THEN sorted_items
    ELSE LET item == Head(queue)
             st == Relax(graph[item], deg, Tail(queue))
         IN  Kahn(st.queue, st.deg, graph, Append(sorted_items, item))

\* Line 669 as a bug would have it: the zero-in-degree items taken in the
\* reverse of the insertion order.
ZeroQueueReversed(names, deg) ==
    LET zero == SelectSeq(names, LAMBDA p : deg[p] = 0)
    IN  [i \in 1..Len(zero) |-> zero[Len(zero) + 1 - i]]

\* Line 669: the items whose in-degree is zero, in the insertion order of in_degree.
ZeroQueue(names, deg) == SelectSeq(names, LAMBDA p : deg[p] = 0)

\* Lines 680-681 as a bug would have them: the length test left out.
CycleDetectedNever(sorted_items, deg) == FALSE

\* Lines 680-681: len(sorted_items) != len(in_degree) raises the cycle error.
CycleDetected(sorted_items, deg) == Len(sorted_items) # Cardinality(DOMAIN deg)

\* The whole function: [ok |-> TRUE, list |-> order] or [ok |-> FALSE] when
\* the ValueError of line 681 is re-raised as RuntimeError at line 685.
sort_datapipelines(names, refs) ==
    LET graph  == BuildGraph(names, refs, [q \in Range(names) |-> <<>>])
        deg    == InDegree(names, refs)
        sorted == Kahn(ZeroQueue(names, deg), deg, graph, <<>>)
    IN  IF CycleDetected(sorted, deg)
        THEN [ok |-> FALSE, list |-> <<>>]
        ELSE [ok |-> TRUE, list |-> sorted]

(***************************************************************************)
(* Artifacts, items and the platform (Spec).                               *)
(*                                                                         *)
(* An artifact is keyed by <<type, n>>, the (displayName, type) pair of    *)
(* its .platform file and the item_key f"{name}.{type}" of create_item.    *)
(* An item id is <<"old", key>> for an item that exists before the run and *)
(* <<"new", key>> for one the run creates. The item dicts of the listing   *)
(* are modelled by their ids, so item["id"] is the item itself.            *)
(***************************************************************************)
Lake1  == <<"Lakehouse", 1>>
Event1 == <<"Eventhouse", 1>>
Note1  == <<"Notebook", 1>>
Note2  == <<"Notebook", 2>>
Pipe(i) == <<"DataPipeline", i>>

TypeOf(k) == k[1]

OldId(k) == <<"old", k>>
NewId(k) == <<"new", k>>
KeyOf(id) == id[2]

\* How many pipelines the repository of a run may define.
PipelineCounts == {0, 1, 2}

\* The repositories a run may be given: any lakehouse/eventhouse/notebook
\* combination and the pipelines 1..n.
RepoChoices ==
    {S \cup N \cup {Pipe(i) : i \in 1..n} :
        S \in SUBSET {Lake1, Event1}, N \in SUBSET {Note1}, n \in PipelineCounts}

\* The items an existing workspace may hold before the run, in the order the
\* listing returns them. Note2 is defined in no repository.
DeployedUniverse == <<Lake1, Note1, Note2, Pipe(1)>>

PipelinesOf(R) == {k \in R : TypeOf(k) = "DataPipeline"}
NotebooksOf(R) == {k \in R : TypeOf(k) = "Notebook"}

\* The contents a body may have: the logical ids of at most MaxBodyRefs
\* repository artifacts occur in it. A pipeline key in a pipeline body is an
\* ExecutePipeline/InvokePipeline activity; a notebook refers to storage only.
BodyChoices(R, k) ==
    LET pool == IF TypeOf(k) = "DataPipeline" THEN R
                ELSE {r \in R : TypeOf(r) \in {"Lakehouse", "Eventhouse"}}
    IN  {B \in SUBSET pool : Cardinality(B) <= MaxBodyRefs}

\* inputs of the run, never assigned after Init (and the variables of the
\* specifications of single functions)
envVars   == <<publish_status, env_calls>>
fixedVars == <<variant, ws_existed, repo, sort_pc, sort_names, sort_refs, sort_result,
               fnVars>>
inputVars == <<fixedVars, envVars>>
delVars   == <<items, del_i, deleted_ids, since_pause>>
pollVars  == <<items_to_confirm, elapsed, last_listing, absent_seen>>
depVars   == <<body, lakehouse_dict, eventhouse_dict, publish_order, pipe_i,
               guids, submitted, create_status>>
wsVars    == <<workspaces, ws_calls, attempt, name_conflict>>

NoError == [kind |-> "none", ids |-> {}]

\* The values the run's variables have before anything ran.
RunFresh ==
    /\ workspace_id = "none"
    /\ is_deployment = FALSE
    /\ body = <<>>
    /\ deleted = {}
    /\ items = <<>>
    /\ del_i = 0
    /\ deleted_ids = <<>>
    /\ since_pause = 0
    /\ items_to_confirm = {}
    /\ elapsed = 0
    /\ last_listing = {}
    /\ absent_seen = FALSE
    /\ lakehouse_dict = {}
    /\ eventhouse_dict = {}
    /\ publish_order = <<>>
    /\ pipe_i = 0
    /\ guids = <<>>
    /\ calls = <<>>
    /\ submitted = [of |-> "none"]
    /\ create_status = "none"
    /\ publish_status = "unset"
    /\ env_calls = <<>>
    /\ error = NoError
    /\ ws_calls = <<>>
    /\ attempt = 0
    /\ name_conflict = "unread"

\* Outside Spec the run does not exist.
RunIdle ==
    /\ pc = "idle"
    /\ variant = "main"
    /\ ws_existed = FALSE
    /\ repo = {}
    /\ live = {}
    /\ workspaces = {}
    /\ RunFresh

SortIdle ==
    /\ sort_pc = "idle"
    /\ sort_names = <<>>
    /\ sort_refs = <<>>
    /\ sort_result = <<>>

NoPollError == [kind |-> "none", last |-> "none"]

PollIdle ==
    /\ poll_pc = "idle"
    /\ poll_fn = "env"
    /\ initial_poll_interval = 0
    /\ max_poll_interval = 0
    /\ maximum_duration = 0
    /\ elapsed_time = 0
    /\ current_poll_interval = 0
    /\ current_state = "unbound"
    /\ observed = <<>>
    /\ sleeps = <<>>
    /\ poll_result = "none"
    /\ poll_error = NoPollError

NoTokenError == [kind |-> "none", attempts |-> 0, last |-> "none"]

TokenIdle ==
    /\ token_pc = "idle"
    /\ token_fn = "spn"
    /\ max_retries = 0
    /\ token_attempt = 0
    /\ response_bound = FALSE
    /\ outcomes = <<>>
    /\ delays = <<>>
    /\ token_error = NoTokenError
    /\ cancel_signal = FALSE

\* A JSON value: a string, a list of values, or a dict as the list of its
\* <<key, value>> entries in insertion order.
Str(s) == [kind |-> "str", val |-> s]
List(values) == [kind |-> "list", val |-> values]
Dict(entries) == [kind |-> "dict", val |-> entries]

FindIdle ==
    /\ find_pc = "idle"
    /\ activity_chain = <<>>
    /\ item_content_dict = Dict(<<>>)
    /\ reference_list = <<>>

Init ==
    /\ SortIdle
    /\ PollIdle
    /\ TokenIdle
    /\ FindIdle
    /\ pc = "start"
    /\ variant \in {"main", "wsutil"}
    /\ ws_existed \in BOOLEAN
    /\ repo \in RepoChoices
    /\ \E D \in SUBSET Range(DeployedUniverse) :
          live = IF ws_existed THEN {OldId(k) : k \in D} ELSE {}
    /\ workspaces = (IF ws_existed THEN {"existing"} ELSE {}) \cup {"other"}
    /\ RunFresh

(***************************************************************************)
(* Raising.                                                                *)
(*   main:   deployment_main.py:331-334 re-raises.                         *)
(*   wsutil: workspace_utilities.py:549-561 attempts delete_workspace on   *)
(*           the new-workspace branch once workspace_id is set, then       *)
(*           re-raises; lines 598-602 raise on the existing branch.        *)
(***************************************************************************)
\* The except clauses as a bug would have them: the exception is swallowed
\* and the run carries on with the environment.
RaisedPcSwallowed == "env_create"

\* Where an exception takes the run: the except clause of the new-workspace
\* branch of workspace_utilities.py cleans up `if workspace_id:`.
RaisedPc ==
    IF variant = "wsutil" /\ is_deployment /\ workspace_id # "none"
    THEN "cleanup" ELSE "raised"

\* str(exc) as a bug would have it: an exception without text.
StrOfEmpty(kind) == <<>>

\* str(exc), a text as the list of its parts: every exception the steps of
\* the run raise is built from a literal text (e.g. workspace_utilities.py
\* 359, workspace_item_utilities.py 35, 149, 870), so its text is not empty.
StrOf(kind) == <<kind>>

\* workspace_utilities.py:567-602: the existing-workspace branch catches the
\* exception, appends its text to error_message ("" at line 458) and raises
\* `if error_message:`.
InExistingTry == variant = "wsutil" /\ ~is_deployment /\ workspace_id # "none"

Raise(kind, ids) ==
    /\ error' = [kind |-> kind, ids |-> ids]
    /\ pc' = IF InExistingTry /\ (<<>> \o StrOf(kind)) = <<>>
             THEN "returned" ELSE RaisedPc

WsCall(op, id) == [op |-> op, id |-> id]

\* workspace_utilities.py:551-558: best-effort delete_workspace; its failure
\* is printed and the original exception is raised either way (line 561).
CleanupWorkspace ==
    /\ pc = "cleanup"
    /\ pc' = "raised"
    /\ ws_calls' = Append(ws_calls, WsCall("delete_workspace", workspace_id))
    /\ \/ /\ workspace_id' = "cleaned"
          /\ live' = {}
          /\ workspaces' = workspaces \ {workspace_id}
       \/ UNCHANGED <<workspace_id, live, workspaces>>
    /\ UNCHANGED <<inputVars, attempt, name_conflict, is_deployment, deleted, delVars,
                   pollVars, depVars, calls, error>>

(***************************************************************************)
(* Workspace resolution.                                                   *)
(*                                                                         *)
(* The platform holds at most one workspace of the run's name ("existing"  *)
(* before the run, or "new" once the run created it) and a workspace of    *)
(* another name ("other"). A lookup by name may miss a workspace that      *)
(* exists (the read APIs are eventually consistent) but finds none that    *)
(* does not.                                                               *)
(***************************************************************************)
\* The enumeration as a bug would have it: the first listed workspace is
\* taken whatever its name.
NameMatchesAny(ws) == TRUE

\* ws.get("displayName") == workspace_name, workspace_utilities.py:397,428,515.
NameMatches(ws) == ws \in {"existing", "new"}

\* The workspace of the run's name, if the platform holds it.
Present == {ws \in workspaces : ws \in {"existing", "new"}}

\* does_workspace_exists_by_name: the id found, None, or a failed request
\* (ws_calls records a failed request as a lookup that found nothing).
LookupOutcomes == Present \cup {"none", "error"}

\* The variables no step of the workspace resolution assigns.
afterResolveVars == <<live, deleted, delVars, pollVars, depVars, calls>>

\* main: deployment_main.py:281-285, one lookup by name; a failed request
\* raises. wsutil: workspace_utilities.py:495-503 starts the lookup with retry.
ResolveWorkspace ==
    /\ pc = "start"
    /\ IF variant = "main"
       THEN \E out \in LookupOutcomes :
              /\ ws_calls' = Append(ws_calls, WsCall("lookup", IF out \in Present THEN out ELSE "none"))
              /\ IF out = "error"
                 THEN Raise("WorkspaceLookupFailed", {}) /\ UNCHANGED workspace_id
                 ELSE /\ workspace_id' = out
                      /\ pc' = IF out = "none" THEN "create_ws" ELSE "add_sg"
                      /\ UNCHANGED error
       ELSE /\ pc' = "ws_lookup"
            /\ UNCHANGED <<workspace_id, ws_calls, error>>
    /\ UNCHANGED <<inputVars, workspaces, attempt, name_conflict, is_deployment,
                   afterResolveVars>>

\* get_workspace_by_name_with_retry, workspace_utilities.py:66-83: one pass
\* of its loop. A found workspace is returned at once; a miss or an error is
\* followed by another attempt while attempt < max_retries - 1, and by
\* `return None` after the last.
LookupAttempt(found_pc, missed_pc) ==
    /\ \E out \in LookupOutcomes :
         /\ ws_calls' = Append(ws_calls, WsCall("lookup", IF out \in Present THEN out ELSE "none"))
         /\ IF out \in Present
            THEN /\ workspace_id' = out
                 /\ pc' = found_pc
                 /\ attempt' = 0
            ELSE /\ UNCHANGED workspace_id
                 /\ IF attempt + 1 < MaxLookupRetries
                    THEN attempt' = attempt + 1 /\ UNCHANGED pc
                    ELSE attempt' = 0 /\ pc' = missed_pc
    /\ UNCHANGED <<inputVars, workspaces, name_conflict, is_deployment, error,
                   afterResolveVars>>

\* list_all_workspaces and the search for the name in its result
\* (workspace_utilities.py:394-403, 425-434, 509-522): the workspaces the
\* caller sees, or a failed request, which is printed and counts as no match.
Enumerations == (SUBSET workspaces) \cup {{}}

\* wsutil orchestrator, workspace_utilities.py:499-503.
WsLookup ==
    /\ pc = "ws_lookup"
    /\ LookupAttempt("add_sg", "ws_list")

\* wsutil orchestrator, workspace_utilities.py:506-522.
WsList ==
    /\ pc = "ws_list"
    /\ \E seen \in Enumerations :
         /\ ws_calls' = Append(ws_calls, WsCall("list", "none"))
         /\ \/ \E ws \in seen :
                 /\ NameMatches(ws)
                 /\ workspace_id' = ws
                 /\ pc' = "add_sg"
            \/ /\ \A ws \in seen : ~NameMatches(ws)
               /\ pc' = "create_ws"
               /\ UNCHANGED workspace_id
    /\ UNCHANGED <<inputVars, workspaces, attempt, name_conflict, is_deployment,
                   error, afterResolveVars>>

\* main: deployment_main.py:285-288 create_workspace
\*       (workspace_utilities.py:167-183), any rejection raises.
\* wsutil: workspace_utilities.py:526-530 create_workspace_with_fallback,
\*       lines 371-375, and create_workspace_direct_api (lines 85-151): 201
\*       returns the new id, 409 returns None, any other answer raises with
\*       the platform's message, which may read as a naming conflict.
\* The platform rejects the name of a workspace that exists.
CreateWorkspace ==
    /\ pc = "create_ws"
    /\ is_deployment' = TRUE
    /\ \/ /\ Present = {}
          /\ ws_calls' = Append(ws_calls, WsCall("create", "new"))
          /\ workspaces' = workspaces \cup {"new"}
          /\ workspace_id' = "new"
          /\ pc' = "add_sg"
          /\ UNCHANGED error
       \/ /\ ws_calls' = Append(ws_calls, WsCall("create", "none"))
          /\ UNCHANGED <<workspaces, workspace_id>>
          /\ \/ /\ variant = "wsutil"
                /\ Present # {}
                /\ pc' = "fb_lookup"
                /\ UNCHANGED error
             \/ /\ variant = "wsutil"
                /\ pc' = "fbx_lookup"
                /\ UNCHANGED error
             \/ Raise("WorkspaceCreateFailed", {})
    /\ UNCHANGED <<inputVars, attempt, name_conflict, afterResolveVars>>

\* create_workspace_with_fallback lines 381-389: the lookup with retry after
\* create_workspace_direct_api returned None.
FbLookup ==
    /\ pc = "fb_lookup"
    /\ LookupAttempt("add_sg", "fb_list")

\* create_workspace_with_fallback lines 391-405: the enumeration, and the
\* raise of line 405 inside the try block, which the except clause of line
\* 407 catches: the text of the exception holds the workspace name, and when
\* that reads as a conflict (lines 412-415) the lookups start again.
FbList ==
    /\ pc = "fb_list"
    /\ \E seen \in Enumerations :
         /\ ws_calls' = Append(ws_calls, WsCall("list", "none"))
         /\ \/ \E ws \in seen :
                 /\ NameMatches(ws)
                 /\ workspace_id' = ws
                 /\ pc' = "add_sg"
                 /\ UNCHANGED <<error, name_conflict>>
            \/ /\ \A ws \in seen : ~NameMatches(ws)
               /\ UNCHANGED workspace_id
               /\ \E c \in (IF name_conflict = "unread" THEN {"yes", "no"}
                                                       ELSE {name_conflict}) :
                    /\ name_conflict' = c
                    /\ IF c = "yes"
                       THEN pc' = "fbx_lookup" /\ UNCHANGED error
                       ELSE Raise("WorkspaceUnresolvable", {})
    /\ UNCHANGED <<inputVars, workspaces, attempt, is_deployment, afterResolveVars>>

\* create_workspace_with_fallback lines 417-425: the lookup with retry of
\* the except clause.
FbxLookup ==
    /\ pc = "fbx_lookup"
    /\ LookupAttempt("add_sg", "fbx_list")

\* create_workspace_with_fallback lines 427-439: the enumeration of the
\* except clause; its raise leaves the function.
FbxList ==
    /\ pc = "fbx_list"
    /\ \E seen \in Enumerations :
         /\ ws_calls' = Append(ws_calls, WsCall("list", "none"))
         /\ \/ \E ws \in seen :
                 /\ NameMatches(ws)
                 /\ workspace_id' = ws
                 /\ pc' = "add_sg"
                 /\ UNCHANGED error
            \/ /\ \A ws \in seen : ~NameMatches(ws)
               /\ UNCHANGED workspace_id
               /\ Raise("WorkspaceUnresolvable", {})
    /\ UNCHANGED <<inputVars, workspaces, attempt, name_conflict, is_deployment,
                   afterResolveVars>>

\* The branches as a bug would have them: the new workspace is reconciled too.
AfterSecurityGroupAlwaysList == "list_items"

\* deployment_main.py:293-299 against 310-317, workspace_utilities.py:538-547
\* against 576-584: the new-workspace branch deploys at once, the other
\* branch lists and deletes first.
AfterSecurityGroup == IF is_deployment THEN "deploy_start" ELSE "list_items"

\* add_security_group_to_workspace, workspace_utilities.py:340-359, called at
\* deployment_main.py:291,308 and workspace_utilities.py:534,572.
AddSecurityGroup ==
    /\ pc = "add_sg"
    /\ \/ /\ pc' = AfterSecurityGroup
          /\ UNCHANGED error
       \/ Raise("SecurityGroupSyncFailed", {})
    /\ UNCHANGED <<inputVars, wsVars, workspace_id, is_deployment, live, deleted, delVars,
                   pollVars, depVars, calls>>

(***************************************************************************)
(* Incremental branch: listing, deletion, confirmation.                    *)
(***************************************************************************)
\* A listing of the workspace items: every live item, and any of the items
\* whose deletion was accepted (the listing is eventually consistent).
Listings == {live \cup vis : vis \in SUBSET deleted}

\* list_workspace_all_items, workspace_item_utilities.py:14-35, called at
\* deployment_main.py:311 and workspace_utilities.py:578.
ListItems ==
    /\ pc = "list_items"
    /\ \/ /\ items' = SelectSeq([i \in DOMAIN DeployedUniverse |->
                                    OldId(DeployedUniverse[i])],
                                LAMBDA id : id \in live)
          /\ pc' = "delete"
          /\ UNCHANGED error
       \/ /\ Raise("ListItemsFailed", {})
          /\ UNCHANGED items
    /\ UNCHANGED <<inputVars, wsVars, workspace_id, is_deployment, live, deleted, del_i,
                   deleted_ids, since_pause, pollVars, depVars, calls>>

\* deployment_main.py:315-317 and workspace_utilities.py:582-584: the whole
\* listing is the second argument of delete_old_items. (The two further
\* arguments artifact_path and target_folder have no parameter in its
\* definition at workspace_item_utilities.py:116; they are not used.)
ItemsToDelete == items

\* Line 137: the batch size of the rate limiting.
RateLimitBatch == 30

\* The rate limiting as a bug would have it: no pause at all.
PauseDueNever(i) == FALSE

\* Line 137: time.sleep(55) before the request of item i.
PauseDue(i) == i % RateLimitBatch = 0 /\ i > 0

\* delete_old_items, workspace_item_utilities.py:136-145: one loop pass, the
\* rate-limit pause when it is due and the DELETE request of item i.
DeleteOldItem ==
    /\ pc = "delete"
    /\ del_i < Len(ItemsToDelete)
    /\ since_pause' = IF PauseDue(del_i) THEN 1 ELSE since_pause + 1
    /\ LET id == ItemsToDelete[del_i + 1]
       IN  \/ /\ live' = live \ {id}
              /\ deleted' = deleted \cup {id}
              /\ deleted_ids' = Append(deleted_ids, id)
              /\ del_i' = del_i + 1
              /\ calls' = Append(calls, [op |-> "delete", id |-> id, ok |-> TRUE])
              /\ UNCHANGED <<pc, error>>
           \/ /\ calls' = Append(calls, [op |-> "delete", id |-> id, ok |-> FALSE])
              /\ Raise("DeleteFailed", {id})
              /\ UNCHANGED <<live, deleted, deleted_ids, del_i>>
    /\ UNCHANGED <<inputVars, wsVars, workspace_id, is_deployment, items, pollVars, depVars>>

\* delete_old_items returns deleted_ids (line 147).
\* main: deployment_main.py:320-321 polls when the list is not empty, and
\*       poll_item_deletion_status lines 46-48 set up its working set.
\* wsutil: workspace_utilities.py:588 sleeps next.
DeleteOldItemsReturn ==
    /\ pc = "delete"
    /\ del_i = Len(ItemsToDelete)
    /\ IF variant = "main"
       THEN IF deleted_ids # <<>>
            THEN /\ pc' = "poll"
                 /\ items_to_confirm' = Range(deleted_ids)
                 /\ elapsed' = 0
            ELSE /\ pc' = "deploy_start"
                 /\ UNCHANGED <<items_to_confirm, elapsed>>
       ELSE /\ pc' = "sleep"
            /\ UNCHANGED <<items_to_confirm, elapsed>>
    /\ UNCHANGED <<inputVars, wsVars, workspace_id, is_deployment, live, deleted, delVars,
                   last_listing, absent_seen, depVars, calls, error>>

\* workspace_utilities.py:586-588: time.sleep(450), no listing is taken.
SleepAfterDelete ==
    /\ pc = "sleep"
    /\ pc' = "deploy_start"
    /\ UNCHANGED <<inputVars, wsVars, workspace_id, is_deployment, live, deleted, delVars,
                   pollVars, depVars, calls, error>>

\* poll_item_deletion_status lines 55-58: an id missing from the current
\* listing is removed from items_to_confirm for good.
StillToConfirm(confirm, listing) == confirm \cap listing

\* poll_item_deletion_status, deployment_main.py:50-65: one pass of the while
\* loop. The clock advances by the sleep; the duration of the listing call
\* is not counted.
PollDeletionPass ==
    /\ pc = "poll"
    /\ elapsed < DeletionTimeout
    /\ \/ \E listing \in Listings :
            LET rest == StillToConfirm(items_to_confirm, listing)
            IN  /\ absent_seen' = (absent_seen \/ listing \cap deleted = {})
                /\ IF rest = {}
                   THEN \* line 62: return; the locals go out of scope
                        /\ pc' = "deploy_start"
                        /\ items_to_confirm' = {}
                        /\ last_listing' = {}
                        /\ elapsed' = 0
                   ELSE \* line 65: sleep and poll again
                        /\ pc' = "poll"
                        /\ items_to_confirm' = rest
                        /\ last_listing' = listing
                        /\ elapsed' = elapsed + DeletionPollInterval
                /\ UNCHANGED error
       \/ /\ Raise("ListItemsFailed", {})
          /\ UNCHANGED pollVars
    /\ UNCHANGED <<inputVars, wsVars, workspace_id, is_deployment, live, deleted, delVars,
                   depVars, calls>>

\* poll_item_deletion_status line 67: the loop ended on the timeout.
PollDeletionTimeout ==
    /\ pc = "poll"
    /\ elapsed >= DeletionTimeout
    /\ Raise("DeletionNotConfirmed", items_to_confirm)
    /\ UNCHANGED <<inputVars, wsVars, workspace_id, is_deployment, live, deleted, delVars,
                   pollVars, depVars, calls>>

(***************************************************************************)
(* deploy_artifacts, workspace_item_utilities.py:833-870.                  *)
(***************************************************************************)
Environment1 == <<"Environment", 1>>

\* The order as a bug would have it: the pipelines go first.
StageOrderPipelinesFirst ==
    <<"pipelines", "lakehouse", "eventhouse", "notebook", "env_create">>

\* Lines 841-867: lakehouses, eventhouses, notebooks, pipelines, and the
\* custom Spark environment last.
StageOrder == <<"lakehouse", "eventhouse", "notebook", "pipelines", "env_create">>

StageIndex(stage) == CHOOSE i \in DOMAIN StageOrder : StageOrder[i] = stage

\* The stage that follows `stage`; deploy_artifacts returns after the last.
NextStage(stage) ==
    IF StageIndex(stage) = Len(StageOrder) THEN "returned"
    ELSE StageOrder[StageIndex(stage) + 1]

\* Line 838: existing_items, the listing taken before the deletions keyed by
\* f"{displayName}.{type}".
ExistingItems == Range(items)
ExistingKeys == {KeyOf(id) : id \in ExistingItems}

\* The platform accepts a create only if no live item has the same
\* (displayName, type), and an updateDefinition only for a live item.
CreateAccepted(k) == \A id \in live : KeyOf(id) # k
UpdateAccepted(id) == id \in live

IsUpsert(c) == c.op \in {"create", "update"}

\* The answers of the platform to a create request it accepts: 201 Created,
\* or 202 Accepted with the creation still in progress.
CreatedStatuses == {"201", "202"}

GuidRecord(k, id) == [artifact_type |-> TypeOf(k), artifact_name |-> k, artifact_guid |-> id]

\* Lines 838-839.
DeployStart ==
    /\ pc = "deploy_start"
    /\ guids' = <<[artifact_type |-> "Workspace", artifact_name |-> <<"Workspace", 1>>,
                   artifact_guid |-> <<workspace_id, <<"Workspace", 1>>>>]>>
    /\ pc' = StageOrder[1]
    /\ UNCHANGED <<inputVars, wsVars, workspace_id, is_deployment, live, deleted, delVars,
                   pollVars, body, lakehouse_dict, eventhouse_dict, publish_order,
                   pipe_i, submitted, create_status, calls, error>>

\* deploy_lakehouse / deploy_eventhouse (lines 709-750) for the storage
\* artifacts of one type: on a full deployment every one in the repository is
\* created (create_lakehouse 237-255, create_eventhouse 258-276); otherwise
\* the dict is read from the listing taken before the deletions (846, 854).
\* At most one artifact of each type is in the repository.
DeployStorage(stage, type, dict) ==
    /\ pc = stage
    /\ LET mine == {k \in repo : TypeOf(k) = type}
       IN  IF is_deployment /\ mine # {}
           THEN LET k == CHOOSE x \in mine : TRUE
                IN  \/ /\ CreateAccepted(k)
                       /\ live' = live \cup {NewId(k)}
                       /\ dict' = {NewId(k)}
                       /\ calls' = Append(calls, [op |-> "create", id |-> NewId(k), ok |-> TRUE])
                       /\ create_status' \in CreatedStatuses
                       /\ pc' = NextStage(stage)
                       /\ UNCHANGED error
                    \/ /\ calls' = Append(calls, [op |-> "create", id |-> NewId(k), ok |-> FALSE])
                       /\ create_status' = "none"
                       /\ Raise("CreateFailed", {NewId(k)})
                       /\ UNCHANGED <<live, dict>>
           ELSE /\ dict' = IF is_deployment THEN {}
                           ELSE {id \in ExistingItems : TypeOf(KeyOf(id)) = type}
                /\ pc' = NextStage(stage)
                /\ UNCHANGED <<live, calls, error, create_status>>
    /\ UNCHANGED <<inputVars, wsVars, workspace_id, is_deployment, deleted, delVars, pollVars,
                   body, publish_order, pipe_i, guids, submitted>>

DeployLakehouse ==
    /\ DeployStorage("lakehouse", "Lakehouse", lakehouse_dict)
    /\ UNCHANGED eventhouse_dict

DeployEventhouse ==
    /\ DeployStorage("eventhouse", "Eventhouse", eventhouse_dict)
    /\ UNCHANGED lakehouse_dict

\* create_item lines 293-304: the file content is encoded as read; the call
\* of replace_logical_ids is commented out (lines 299-300), so every logical
\* id of the body stays in place.
ItemContent(k, content) == [of |-> k, logical |-> content, guid |-> {}]

\* create_item, lines 279-343, for artifact k with the given file content,
\* going on at `next` when the request succeeds: updateDefinition on the
\* listed id when item_key is in existing_items (lines 315-320), a create
\* otherwise (lines 321-336); a failed request raises (lines 340-343).
CreateItem(k, content, next) ==
    LET op == IF k \in ExistingKeys THEN "update" ELSE "create"
        id == IF k \in ExistingKeys THEN OldId(k) ELSE NewId(k)
    IN  /\ submitted' = ItemContent(k, content)
        /\ \/ /\ IF op = "update" THEN UpdateAccepted(id) ELSE CreateAccepted(k)
              /\ live' = live \cup {id}
              /\ calls' = Append(calls, [op |-> op, id |-> id, ok |-> TRUE])
              /\ guids' = Append(guids, GuidRecord(k, id))
              /\ create_status' \in IF op = "create" THEN CreatedStatuses ELSE {"none"}
              /\ pc' = next
              /\ UNCHANGED error
           \/ /\ calls' = Append(calls, [op |-> op, id |-> id, ok |-> FALSE])
              /\ create_status' = "none"
              /\ Raise("UpsertFailed", {id})
              /\ UNCHANGED <<live, guids>>

\* deploy_notebooks (lines 753-776) for the notebooks of the repository, at
\* most one. update_notebook_content (152-174) rewrites only the
\* default_lakehouse metadata fields; `content` is the set of artifacts
\* whose logicalId occurs elsewhere in the file. Line 776 calls
\* create_notebook, which no source file defines; create_item, the item
\* upsert of the same module ("create or update an item
\* (Notebook/DataPipeline)"), stands for it.
DeployNotebooks ==
    /\ pc = "notebook"
    /\ IF NotebooksOf(repo) = {}
       THEN /\ pc' = NextStage("notebook")
            /\ UNCHANGED <<live, guids, calls, submitted, create_status, error>>
       ELSE LET k == CHOOSE x \in NotebooksOf(repo) : TRUE
            IN  \E content \in BodyChoices(repo, k) :  \* lines 766-767
                    CreateItem(k, content, NextStage("notebook"))
    /\ UNCHANGED <<inputVars, wsVars, workspace_id, is_deployment, deleted, delVars, pollVars,
                   body, lakehouse_dict, eventhouse_dict, publish_order, pipe_i>>

\* Index of a pipeline key and back.
PipeIndex(k) == k[2]

\* find_referenced_datapipelines (lines 504-539) for the body of pipeline p:
\* the names of the pipelines its invoke activities refer to.
ReferencedPipelines(contents, p) ==
    SetToSeq({PipeIndex(k) : k \in PipelinesOf(contents[Pipe(p)])})

\* deploy_pipelines lines 783-789: get_unsorted_pipeline_dict reads the
\* pipeline files, the early return without pipelines, and
\* sort_datapipelines. The reference lookups list the workspace
\* (convert_id_to_name -> deployed_items_list).
DeployPipelinesStart ==
    /\ pc = "pipelines"
    /\ IF PipelinesOf(repo) = {}
       THEN /\ pc' = NextStage("pipelines")
            /\ UNCHANGED <<body, publish_order, pipe_i, error>>
       ELSE /\ body' \in {b \in [PipelinesOf(repo) -> SUBSET repo] :
                            \A k \in PipelinesOf(repo) : b[k] \in BodyChoices(repo, k)}
            /\ LET n == Cardinality(PipelinesOf(repo))
                   names == [i \in 1..n |-> i]
                   refs == [p \in 1..n |-> ReferencedPipelines(body', p)]
                   res == sort_datapipelines(names, refs)
               IN  \/ /\ res.ok
                      /\ publish_order' = res.list
                      /\ pipe_i' = 0
                      /\ pc' = "pipeline"
                      /\ UNCHANGED error
                   \/ /\ ~res.ok
                      /\ Raise("CyclicDependency", {})
                      /\ UNCHANGED <<publish_order, pipe_i>>
                   \/ /\ \E p \in 1..n : refs[p] # <<>>
                      /\ Raise("ListItemsFailed", {})
                      /\ UNCHANGED <<publish_order, pipe_i>>
    /\ UNCHANGED <<inputVars, wsVars, workspace_id, is_deployment, live, deleted, delVars,
                   pollVars, lakehouse_dict, eventhouse_dict, guids, submitted, create_status,
                   calls>>

\* repository_items_list lines 443-446 on one listing: the deployed guid of
\* repository artifact r, one of the listed items of its type and name.
Candidates(r, listing) == {id \in listing : KeyOf(id) = r}

\* replace_logical_ids lines 387-395 on the body of k: the logical ids that
\* occur in the body and have no deployed guid in the listing.
Unresolved(k, listing) == {r \in body[k] : Candidates(r, listing) = {}}

\* create_data_pipeline (lines 595-648) for the next pipeline of
\* publish_order (deploy_pipelines 791-804): repository_items_list and
\* replace_logical_ids on one listing, then the POST that creates the item.
DeployPipeline ==
    /\ pc = "pipeline"
    /\ pipe_i < Len(publish_order)
    /\ LET k == Pipe(publish_order[pipe_i + 1])
       IN  \/ \E listing \in Listings :
                \/ /\ Unresolved(k, listing) # {}
                   /\ Raise("UnresolvedReference", Unresolved(k, listing))
                   /\ UNCHANGED <<live, guids, calls, submitted, create_status, pipe_i>>
                \/ /\ Unresolved(k, listing) = {}
                   /\ \E sub \in [body[k] -> listing] :
                        /\ \A r \in body[k] : sub[r] \in Candidates(r, listing)
                        /\ submitted' = [of |-> k, logical |-> {},
                                         guid |-> {sub[r] : r \in body[k]}]
                   /\ \/ /\ CreateAccepted(k)
                         /\ live' = live \cup {NewId(k)}
                         /\ calls' = Append(calls, [op |-> "create", id |-> NewId(k), ok |-> TRUE])
                         /\ guids' = Append(guids, GuidRecord(k, NewId(k)))
                         /\ create_status' \in CreatedStatuses
                         /\ pipe_i' = pipe_i + 1
                         /\ UNCHANGED <<pc, error>>
                      \/ /\ calls' = Append(calls, [op |-> "create", id |-> NewId(k), ok |-> FALSE])
                         /\ create_status' = "none"
                         /\ Raise("UpsertFailed", {NewId(k)})
                         /\ UNCHANGED <<live, guids, pipe_i>>
           \/ /\ Raise("ListItemsFailed", {})
              /\ UNCHANGED <<live, guids, calls, submitted, create_status, pipe_i>>
    /\ UNCHANGED <<inputVars, wsVars, workspace_id, is_deployment, deleted, delVars, pollVars,
                   body, lakehouse_dict, eventhouse_dict, publish_order>>

\* deploy_pipelines: the loop of lines 791-804 is over and the function
\* returns; its locals go out of scope.
DeployPipelinesDone ==
    /\ pc = "pipeline"
    /\ pipe_i = Len(publish_order)
    /\ pc' = NextStage("pipelines")
    /\ body' = <<>>
    /\ publish_order' = <<>>
    /\ pipe_i' = 0
    /\ UNCHANGED <<inputVars, wsVars, workspace_id, is_deployment, live, deleted, delVars,
                   pollVars, lakehouse_dict, eventhouse_dict, guids, submitted, create_status,
                   calls, error>>

\* str.lower() on the spellings of a status and on the keys and activity
\* types of a pipeline body.
Lower(s) ==
    CASE s = "Running" -> "running"
      [] s = "Succeeded" -> "succeeded"
      [] s = "Failed" -> "failed"
      [] s = "Cancelled" -> "cancelled"
      [] s = "Success" -> "success"
      [] s = "ExecutePipeline" -> "executepipeline"
      [] s = "InvokePipeline" -> "invokepipeline"
      [] s = "ForEach" -> "foreach"
      [] s = "Wait" -> "wait"
      [] s = "Type" -> "type"
      [] s = "typeProperties" -> "typeproperties"
      [] s = "referenceName" -> "referencename"
      [] s = "pipelineId" -> "pipelineid"
      [] OTHER -> s

(***************************************************************************)
(* deploy_custom_environment, spark_utilities.py:155-193.                  *)
(***************************************************************************)
\* publishDetails.state as poll_environment_publish_status returns it (any
\* state but "Running", lines 99-104); "none" is a response without one.
PublishStates == {"Success", "success", "Succeeded", "Failed", "Cancelled", "none"}

\* The test as a bug would have it: any state that is present goes on.
PublishSucceededAny(publish_state) == publish_state # "none"

\* Line 184: `publish_status and publish_status.lower() == "success"`.
PublishSucceeded(publish_state) ==
    publish_state # "none" /\ Lower(publish_state) = "success"

\* Line 172: create_environment.
EnvCreate ==
    /\ pc = "env_create"
    /\ env_calls' = Append(env_calls, "create")
    /\ \/ /\ CreateAccepted(Environment1)
          /\ live' = live \cup {NewId(Environment1)}
          /\ calls' = Append(calls, [op |-> "create", id |-> NewId(Environment1), ok |-> TRUE])
          /\ create_status' \in CreatedStatuses
          /\ pc' = "env_publish"
          /\ UNCHANGED error
       \/ /\ calls' = Append(calls, [op |-> "create", id |-> NewId(Environment1), ok |-> FALSE])
          /\ create_status' = "none"
          /\ Raise("EnvironmentFailed", {})
          /\ UNCHANGED live
    /\ UNCHANGED <<fixedVars, publish_status, wsVars, workspace_id, is_deployment, deleted,
                   delVars, pollVars, body, lakehouse_dict, eventhouse_dict, publish_order,
                   pipe_i, guids, submitted>>

\* Line 177: publish_environment.
EnvPublish ==
    /\ pc = "env_publish"
    /\ env_calls' = Append(env_calls, "publish")
    /\ \/ pc' = "env_poll" /\ UNCHANGED error
       \/ Raise("EnvironmentFailed", {})
    /\ UNCHANGED <<fixedVars, publish_status, wsVars, workspace_id, is_deployment, live,
                   deleted, delVars, pollVars, depVars, calls>>

\* Lines 182-190: poll_environment_publish_status returns a state or raises
\* on its maximum duration; only a state that reads "success" goes on.
EnvPoll ==
    /\ pc = "env_poll"
    /\ env_calls' = Append(env_calls, "poll")
    /\ \/ \E publish_state \in PublishStates :
            /\ publish_status' = publish_state
            /\ IF PublishSucceeded(publish_state)
               THEN pc' = "env_default" /\ UNCHANGED error
               ELSE Raise("EnvironmentFailed", {})
       \/ Raise("EnvironmentFailed", {}) /\ UNCHANGED publish_status
    /\ UNCHANGED <<fixedVars, wsVars, workspace_id, is_deployment, live, deleted, delVars,
                   pollVars, depVars, calls>>

\* Line 187: update_default_environment; deploy_artifacts and the
\* orchestrator return after it.
EnvSetDefault ==
    /\ pc = "env_default"
    /\ env_calls' = Append(env_calls, "set_default")
    /\ \/ pc' = NextStage("env_create") /\ UNCHANGED error
       \/ Raise("EnvironmentFailed", {})
    /\ UNCHANGED <<fixedVars, publish_status, wsVars, workspace_id, is_deployment, live,
                   deleted, delVars, pollVars, depVars, calls>>

Next ==
    \/ ResolveWorkspace
    \/ WsLookup
    \/ WsList
    \/ CreateWorkspace
    \/ FbLookup
    \/ FbList
    \/ FbxLookup
    \/ FbxList
    \/ AddSecurityGroup
    \/ ListItems
    \/ DeleteOldItem
    \/ DeleteOldItemsReturn
    \/ SleepAfterDelete
    \/ PollDeletionPass
    \/ PollDeletionTimeout
    \/ DeployStart
    \/ DeployLakehouse
    \/ DeployEventhouse
    \/ DeployNotebooks
    \/ DeployPipelinesStart
    \/ DeployPipeline
    \/ DeployPipelinesDone
    \/ EnvCreate
    \/ EnvPublish
    \/ EnvPoll
    \/ EnvSetDefault
    \/ CleanupWorkspace

Spec == Init /\ [][Next]_vars

(***************************************************************************)
(* SortSpec: every reference graph over at most NumSortPipelines pipelines *)
(* is handed to sort_datapipelines once.                                   *)
(***************************************************************************)
SortInit ==
    /\ RunIdle
    /\ PollIdle
    /\ TokenIdle
    /\ FindIdle
    /\ sort_pc = "ready"
    /\ \E n \in 0..NumSortPipelines :
         /\ sort_names = [i \in 1..n |-> i]
         /\ \E g \in [1..n -> SUBSET (1..n)] :
            \E r \in RepeatChoices :
               sort_refs = [p \in 1..n |-> Repeat(SetToSeq(g[p]), r)]
    /\ sort_result = <<>>

SortCall ==
    /\ sort_pc = "ready"
    /\ LET res == sort_datapipelines(sort_names, sort_refs)
       IN  /\ sort_pc' = IF res.ok THEN "returned" ELSE "raised"
           /\ sort_result' = res.list
    /\ UNCHANGED <<sort_names, sort_refs, runVars, fnVars>>

SortNext == SortCall

SortSpec == SortInit /\ [][SortNext]_vars

(***************************************************************************)
(* ResolveSpec: the workspace resolution of orchestrator() applied twice   *)
(* in succession to the same name, on every platform state and every       *)
(* sequence of lookup and enumeration outcomes.                            *)
(***************************************************************************)
ResolveInit ==
    /\ Init
    /\ repo = {}
    /\ live = {}

\* The resolution has returned workspace_id to the orchestrator.
Resolved == pc = "add_sg"

\* The ids the resolutions so far returned, in order.
Returned == SelectSeq(ws_calls, LAMBDA c : c.op = "return")

\* The first resolution returned; the orchestrator code of the resolution
\* (deployment_main.py:281-288, workspace_utilities.py:495-530) is entered
\* again with fresh locals.
ResolveAgain ==
    /\ Resolved
    /\ Returned = <<>>
    /\ ws_calls' = Append(ws_calls, WsCall("return", workspace_id))
    /\ pc' = "start"
    /\ workspace_id' = "none"
    /\ is_deployment' = FALSE
    /\ UNCHANGED <<inputVars, workspaces, attempt, name_conflict, error,
                   afterResolveVars>>

ResolveNext ==
    \/ ResolveWorkspace
    \/ WsLookup
    \/ WsList
    \/ CreateWorkspace
    \/ FbLookup
    \/ FbList
    \/ FbxLookup
    \/ FbxList
    \/ ResolveAgain

ResolveSpec == ResolveInit /\ [][ResolveNext]_vars

(***************************************************************************)
(* PollSpec: the two polls of a long-running remote operation,             *)
(* handle_async_creation (workspace_item_utilities.py:346-366) and         *)
(* poll_environment_publish_status (spark_utilities.py:63-117), on every   *)
(* sequence of status responses and failed status requests.  Durations are *)
(* whole seconds.                                                          *)
(***************************************************************************)
\* Retry-After when the response carries none (line 351).
DefaultRetryAfter == 30

\* The model stops following handle_async_creation after this many seconds.
MaxAsyncElapsed == 90

PollIntervalChoices == {5, 10}
MaxPollIntervalChoices == {8, 20}
MaximumDurationChoices == {0, 30, 60}

\* publishDetails.state of a status response; "none" is a response without it.
EnvStates == {"Running", "Succeeded", "Failed", "Cancelled", "none"}

\* status of an operation response as the platform may spell it.
AsyncStatuses == {"Running", "Succeeded", "succeeded", "Failed", "Cancelled"}

Min(a, b) == IF a <= b THEN a ELSE b

\* random.uniform(0, current_poll_interval * 0.2), in whole seconds (line 110).
Jitter(interval) == 0..(interval \div 5)

\* Line 110 without the cap.
SleepDurationUncapped(interval, jitter, cap) == interval + jitter

\* Line 110: min(current_poll_interval + jitter, max_poll_interval).
SleepDuration(interval, jitter, cap) == Min(interval + jitter, cap)

PollInit ==
    /\ RunIdle
    /\ SortIdle
    /\ TokenIdle
    /\ FindIdle
    /\ poll_fn \in {"async", "env"}
    /\ poll_pc = IF poll_fn = "async" THEN "start" ELSE "loop"
    /\ initial_poll_interval \in PollIntervalChoices
    /\ max_poll_interval \in MaxPollIntervalChoices
    /\ maximum_duration \in MaximumDurationChoices
    /\ elapsed_time = 0
    /\ current_poll_interval = initial_poll_interval
    /\ current_state = "unbound"
    /\ observed = <<>>
    /\ sleeps = <<>>
    /\ poll_result = "none"
    /\ poll_error = NoPollError

pollParams == <<poll_fn, initial_poll_interval, max_poll_interval, maximum_duration>>

PollRaise(kind, last) ==
    /\ poll_pc' = "raised"
    /\ poll_error' = [kind |-> kind, last |-> last]

\* handle_async_creation lines 350-355: the Location header is required.
AsyncStart ==
    /\ poll_pc = "start"
    /\ poll_fn = "async"
    /\ \/ poll_pc' = "loop" /\ UNCHANGED poll_error
       \/ PollRaise("LocationMissing", "none")
    /\ UNCHANGED <<sortVars, runVars, tokenVars, findVars, pollParams, elapsed_time,
                   current_poll_interval, current_state, observed, sleeps, poll_result>>

\* handle_async_creation lines 357-366: one iteration of while True: sleep,
\* request the status, return the result on succeeded, raise on failed or
\* cancelled, go round on anything else.  A failed request propagates
\* (raise_for_status, line 360; get_operation_result line 375).
AsyncPoll ==
    /\ poll_pc = "loop"
    /\ poll_fn = "async"
    /\ elapsed_time < MaxAsyncElapsed
    /\ sleeps' = Append(sleeps, DefaultRetryAfter)
    /\ elapsed_time' = elapsed_time + DefaultRetryAfter
    /\ \E out \in AsyncStatuses \cup {"error"} :
         /\ observed' = Append(observed, out)
         /\ IF out = "error"
            THEN PollRaise("RequestFailed", "none") /\ UNCHANGED poll_result
            ELSE LET operation_status == Lower(out)
                 IN  IF operation_status = "succeeded"
                     THEN \/ /\ poll_pc' = "returned"
                             /\ poll_result' = operation_status
                             /\ UNCHANGED poll_error
                          \/ /\ PollRaise("RequestFailed", operation_status)
                             /\ UNCHANGED poll_result
                     ELSE IF operation_status \in {"failed", "cancelled"}
                     THEN PollRaise("OperationFailed", operation_status)
                          /\ UNCHANGED poll_result
                     ELSE UNCHANGED <<poll_pc, poll_result, poll_error>>
    /\ UNCHANGED <<sortVars, runVars, tokenVars, findVars, pollParams, current_poll_interval,
                   current_state>>

\* poll_environment_publish_status lines 91-113: one iteration of
\* while elapsed_time < maximum_duration.  A state other than Running is
\* returned; a failed request is printed; then the sleep and the doubling.
EnvPollStatus ==
    /\ poll_pc = "loop"
    /\ poll_fn = "env"
    /\ elapsed_time < maximum_duration
    /\ \E out \in EnvStates \cup {"error"} :
         /\ observed' = Append(observed, out)
         /\ current_state' = IF out = "error" THEN current_state ELSE out
         /\ IF out \notin {"Running", "error"}
            THEN /\ poll_pc' = "returned"
                 /\ poll_result' = out
                 /\ UNCHANGED <<elapsed_time, current_poll_interval, sleeps>>
            ELSE /\ \E jitter \in Jitter(current_poll_interval) :
                      LET sleep_duration == SleepDuration(current_poll_interval, jitter,
                                                          max_poll_interval)
                      IN  /\ sleeps' = Append(sleeps, sleep_duration)
                          /\ elapsed_time' = elapsed_time + sleep_duration
                 /\ current_poll_interval' = Min(current_poll_interval * 2, max_poll_interval)
                 /\ UNCHANGED <<poll_pc, poll_result>>
    /\ UNCHANGED <<sortVars, runVars, tokenVars, findVars, pollParams, poll_error>>

\* Line 115: the raise after the loop formats current_state, a local that
\* is assigned only by a status response (line 97).
EnvPollTimeout ==
    /\ poll_pc = "loop"
    /\ poll_fn = "env"
    /\ elapsed_time >= maximum_duration
    /\ IF current_state = "unbound"
       THEN PollRaise("UnboundLocalError", "none")
       ELSE PollRaise("OperationTimedOut", current_state)
    /\ UNCHANGED <<sortVars, runVars, tokenVars, findVars, pollParams, elapsed_time,
                   current_poll_interval, current_state, observed, sleeps, poll_result>>

PollNext ==
    \/ AsyncStart
    \/ AsyncPoll
    \/ EnvPollStatus
    \/ EnvPollTimeout

PollSpec == PollInit /\ [][PollNext]_vars

(***************************************************************************)
(* TokenSpec: get_spn_access_token (token_utilities.py:7-65) and           *)
(* get_upn_access_token (68-114) on every sequence of request outcomes.    *)
(* Durations are half seconds.                                             *)
(***************************************************************************)
\* initial_delay=1 (lines 7, 68), in half seconds.
initial_delay == 2

MaxRetriesChoices == {0, 1, 2, 3}

\* What one token request can come to: a token; a network error (no response
\* received); a 5xx or a 4xx response; a 200 response without a token.
TransientOutcomes == {"network", "5xx"}
TokenOutcomes == {"ok", "4xx", "no_token"} \cup TransientOutcomes

\* Lines 53, 61, 110: initial_delay * 2 ** attempt plus up to half of it.
BackoffDelays(a) ==
    LET base == initial_delay * (2 ^ a)
    IN  base..(base + base \div 2)

TokenInit ==
    /\ RunIdle
    /\ SortIdle
    /\ PollIdle
    /\ FindIdle
    /\ token_pc = "try"
    /\ token_fn \in {"spn", "upn"}
    /\ max_retries \in MaxRetriesChoices
    /\ token_attempt = 0
    /\ response_bound = FALSE
    /\ outcomes = <<>>
    /\ delays = <<>>
    /\ token_error = NoTokenError
    /\ cancel_signal = FALSE

\* Lines 52-57, 60-65, 109-114: sleep and go round, or raise after the
\* last attempt.
RetryOrRaise(out) ==
    IF token_attempt < max_retries - 1
    THEN /\ \E delay \in BackoffDelays(token_attempt) : delays' = Append(delays, delay)
         /\ token_attempt' = token_attempt + 1
         /\ UNCHANGED <<token_pc, token_error>>
    ELSE /\ token_pc' = "raised"
         /\ token_error' = [kind |-> "RetriesExhausted", attempts |-> max_retries,
                            last |-> out]
         /\ UNCHANGED <<token_attempt, delays>>

\* get_spn_access_token lines 37-65: one iteration of the for loop.  The
\* handler of RequestException (line 50) reads the local response, which
\* requests.post assigns only when a response was received.
SpnAttempt ==
    /\ token_pc = "try"
    /\ token_fn = "spn"
    /\ token_attempt < max_retries
    /\ \E out \in TokenOutcomes :
         /\ outcomes' = Append(outcomes, out)
         /\ response_bound' = (response_bound \/ out # "network")
         /\ IF out = "ok"
            THEN /\ token_pc' = "returned"
                 /\ UNCHANGED <<token_attempt, delays, token_error>>
            ELSE IF out = "network" /\ ~response_bound
            THEN /\ token_pc' = "raised"
                 /\ token_error' = [kind |-> "UnboundLocalError",
                                    attempts |-> 0, last |-> "none"]
                 /\ UNCHANGED <<token_attempt, delays>>
            ELSE RetryOrRaise(out)
    /\ UNCHANGED <<sortVars, runVars, opPollVars, findVars, token_fn, max_retries, cancel_signal>>

\* get_upn_access_token lines 89-114: one iteration; every exception is
\* handled by the clause at line 107.
UpnAttempt ==
    /\ token_pc = "try"
    /\ token_fn = "upn"
    /\ token_attempt < max_retries
    /\ \E out \in TokenOutcomes :
         /\ outcomes' = Append(outcomes, out)
         /\ IF out = "ok"
            THEN /\ token_pc' = "returned"
                 /\ UNCHANGED <<token_attempt, delays, token_error>>
            ELSE RetryOrRaise(out)
    /\ UNCHANGED <<sortVars, runVars, opPollVars, findVars, token_fn, max_retries, response_bound,
                   cancel_signal>>

\* range(max_retries) is empty for max_retries = 0: the function ends
\* without a return statement.
TokenFallThrough ==
    /\ token_pc = "try"
    /\ token_attempt >= max_retries
    /\ token_pc' = "returned"
    /\ UNCHANGED <<sortVars, runVars, opPollVars, findVars, token_fn, max_retries, token_attempt,
                   response_bound, outcomes, delays, token_error, cancel_signal>>

\* The caller asks for the run to stop while the token function is at
\* work. The signatures (lines 7, 68) take no deadline and no cancellation
\* signal, and the loops read none.
CallerCancels ==
    /\ token_pc = "try"
    /\ ~cancel_signal
    /\ cancel_signal' = TRUE
    /\ UNCHANGED <<sortVars, runVars, opPollVars, findVars, token_pc, token_fn, max_retries,
                   token_attempt, response_bound, outcomes, delays, token_error>>

TokenNext ==
    \/ SpnAttempt
    \/ UpnAttempt
    \/ TokenFallThrough
    \/ CallerCancels

TokenSpec == TokenInit /\ [][TokenNext]_vars

(***************************************************************************)
(* DeleteSpec: delete_old_items (workspace_item_utilities.py:116-149) on   *)
(* every list of up to MaxDeleteItems items of an existing workspace, with *)
(* every request succeeding or failing.                                    *)
(***************************************************************************)
MaxDeleteItems == 61

DeleteInit ==
    /\ SortIdle
    /\ PollIdle
    /\ TokenIdle
    /\ FindIdle
    /\ pc = "delete"
    /\ variant \in {"main", "wsutil"}
    /\ ws_existed = TRUE
    /\ workspace_id = "existing"
    /\ workspaces = {"existing", "other"}
    /\ is_deployment = FALSE
    /\ repo = {}
    /\ \E n \in 0..MaxDeleteItems :
          items = [i \in 1..n |-> OldId(<<"Notebook", i>>)]
    /\ live = Range(items)
    /\ body = <<>>
    /\ deleted = {}
    /\ del_i = 0
    /\ deleted_ids = <<>>
    /\ since_pause = 0
    /\ items_to_confirm = {}
    /\ elapsed = 0
    /\ last_listing = {}
    /\ absent_seen = FALSE
    /\ lakehouse_dict = {}
    /\ eventhouse_dict = {}
    /\ publish_order = <<>>
    /\ pipe_i = 0
    /\ guids = <<>>
    /\ calls = <<>>
    /\ submitted = [of |-> "none"]
    /\ create_status = "none"
    /\ publish_status = "unset"
    /\ env_calls = <<>>
    /\ error = NoError
    /\ ws_calls = <<>>
    /\ attempt = 0
    /\ name_conflict = "unread"

DeleteNext ==
    \/ DeleteOldItem
    \/ DeleteOldItemsReturn

DeleteSpec == DeleteInit /\ [][DeleteNext]_vars

(***************************************************************************)
(* FindSpec: find_referenced_datapipelines                                 *)
(* (workspace_item_utilities.py:504-539) on pipeline bodies whose          *)
(* activities are nested up to MaxNesting deep.                            *)
(***************************************************************************)
MaxNesting == 3

ActivityTypes == {"ExecutePipeline", "InvokePipeline", "ForEach"}

\* The id an activity refers to: the logical id of a pipeline of the
\* repository, an id no pipeline has, or no reference at all.
ReferenceIds == {"id1", "id2", "idX", "none"}

\* lookup_dict.get(item_type) of convert_id_to_name (lines 489-495): the
\* pipelines of the repository, name and logical_id, in insertion order.
LookupPipelines == << <<"P1", "id1">>, <<"P2", "id2">> >>

NoneVal == [kind |-> "none", val |-> ""]

\* dict.get(key), and None for a key that is absent; .get(key, {}) on the
\* way down a path gives None at the end all the same.
Get(obj, key) ==
    IF obj.kind = "dict" /\ \E i \in DOMAIN obj.val : obj.val[i][1] = key
    THEN obj.val[CHOOSE i \in DOMAIN obj.val : obj.val[i][1] = key][2]
    ELSE NoneVal

\* Truth value of a Python object (line 519, `if referenced_id:`).
Truthy(v) ==
    CASE v.kind = "str" -> v.val # ""
      [] v.kind \in {"list", "dict"} -> v.val # <<>>
      [] OTHER -> FALSE

\* convert_id_to_name, lines 495-499: the name of the first pipeline whose
\* logical_id equals generic_id, or None.
convert_id_to_name(generic_id) ==
    LET hits == SelectSeq(LookupPipelines,
                          LAMBDA item : generic_id.kind = "str" /\ item[2] = generic_id.val)
    IN  IF hits = <<>> THEN "none" ELSE hits[1][1]

\* Line 516 as a bug would have it: InvokePipeline is not recognised.
IsInvokeNever(value) == FALSE

\* Line 516: value.lower().strip() == "invokepipeline".
IsInvoke(value) == Lower(value.val) = "invokepipeline"

RECURSIVE find_execute_pipeline_activities(_)
RECURSIVE FindInEntries(_, _)
RECURSIVE FindInItems(_, _)

\* Lines 512-529: the entries of a dict from the i-th on. A "type" entry of
\* an execute or invoke activity with a reference id appends the name the id
\* converts to, if any; every other entry is descended into.
FindInEntries(input_object, i) ==
    IF i > Len(input_object.val) THEN <<>>
    ELSE LET key == input_object.val[i][1]
             value == input_object.val[i][2]
             is_type == Lower(key) = "type" /\ value.kind = "str"
             referenced_id ==
                 IF is_type /\ Lower(value.val) = "executepipeline"
                 THEN Get(Get(Get(input_object, "typeProperties"), "pipeline"),
                          "referenceName")
                 ELSE IF is_type /\ IsInvoke(value)
                 THEN Get(Get(input_object, "typeProperties"), "pipelineId")
                 ELSE NoneVal
             found ==
                 IF Truthy(referenced_id)
                 THEN LET referenced_name == convert_id_to_name(referenced_id)
                      IN  IF referenced_name # "none" THEN <<referenced_name>> ELSE <<>>
                 ELSE find_execute_pipeline_activities(value)
         IN  found \o FindInEntries(input_object, i + 1)

\* Lines 530-532: the items of a list from the i-th on.
FindInItems(items_, i) ==
    IF i > Len(items_) THEN <<>>
    ELSE find_execute_pipeline_activities(items_[i]) \o FindInItems(items_, i + 1)

\* Lines 510-532.
find_execute_pipeline_activities(input_object) ==
    CASE input_object.kind = "dict" -> FindInEntries(input_object, 1)
      [] input_object.kind = "list" -> FindInItems(input_object.val, 1)
      [] OTHER -> <<>>

\* The reference property of an activity as the pipeline JSON has it.
ReferenceEntries(a) ==
    IF a.id = "none" THEN <<>>
    ELSE IF a.type = "ExecutePipeline"
    THEN << <<"pipeline", Dict(<< <<"referenceName", Str(a.id)>>,
                                  <<"type", Str("PipelineReference")>> >>)>> >>
    ELSE << <<"pipelineId", Str(a.id)>> >>

RECURSIVE ActivityJson(_, _)
\* The JSON of activity i of the chain: the next activity of the chain is
\* nested in its typeProperties, in a list behind a Wait activity.
ActivityJson(chain, i) ==
    LET a == chain[i]
        nested == IF i = Len(chain) THEN <<>>
                  ELSE << <<"activities",
                            List(<< Dict(<< <<"name", Str("w")>>, <<"type", Str("Wait")>> >>),
                                    ActivityJson(chain, i + 1) >>)>> >>
    IN  Dict(<< <<"name", Str("a")>>,
                <<"type", Str(a.type)>>,
                <<"typeProperties", Dict(ReferenceEntries(a) \o nested)>> >>)

\* pipeline-content.json of a pipeline with the given chain of activities.
PipelineJson(chain) ==
    Dict(<< <<"properties",
              Dict(<< <<"activities",
                        List(IF chain = <<>> THEN <<>> ELSE <<ActivityJson(chain, 1)>>)>> >>)>> >>)

ActivityChoices ==
    {a \in [type : ActivityTypes, id : ReferenceIds] : a.type = "ForEach" => a.id = "none"}

FindInit ==
    /\ RunIdle
    /\ SortIdle
    /\ PollIdle
    /\ TokenIdle
    /\ find_pc = "ready"
    /\ \E n \in 0..MaxNesting : activity_chain \in [1..n -> ActivityChoices]
    /\ item_content_dict = PipelineJson(activity_chain)
    /\ reference_list = <<>>

\* find_referenced_datapipelines, lines 508-539: the list is returned, or
\* convert_id_to_name raised on a listing request that failed (lines 500-501,
\* 526-527, 536-537).
FindCall ==
    /\ find_pc = "ready"
    /\ \/ /\ reference_list' = find_execute_pipeline_activities(item_content_dict)
          /\ find_pc' = "returned"
       \/ /\ \E i \in DOMAIN activity_chain : activity_chain[i].id # "none"
          /\ find_pc' = "raised"
          /\ UNCHANGED reference_list
    /\ UNCHANGED <<sortVars, runVars, opPollVars, tokenVars, activity_chain,
                   item_content_dict>>

FindNext == FindCall

FindSpec == FindInit /\ [][FindNext]_vars

(***************************************************************************)
(* The reference graph of the input, defined independently of the sort.    *)
(***************************************************************************)
\* p invokes q directly.
Invokes(p, q) == q \in Range(sort_refs[p])

RECURSIVE ReachWithin(_, _, _)
\* q is reachable from p along at least one and at most k invoke edges.
ReachWithin(p, q, k) ==
    IF k = 0 THEN FALSE
    ELSE \/ Invokes(p, q)
         \/ \E m \in Range(sort_names) : Invokes(p, m) /\ ReachWithin(m, q, k - 1)

\* p invokes q directly or transitively.
InvokesTrans(p, q) == ReachWithin(p, q, Len(sort_names))

HasCycle == \E p \in Range(sort_names) : InvokesTrans(p, p)

NoReferences == \A p \in Range(sort_names) : sort_refs[p] = <<>>

SortFinished == sort_pc \in {"returned", "raised"}

PositionOf(p) == CHOOSE i \in DOMAIN sort_result : sort_result[i] = p

\* sort_result holds every input pipeline exactly once.
IsPermutationOfInput ==
    /\ Len(sort_result) = Len(sort_names)
    /\ Range(sort_result) = Range(sort_names)

\* C1: for an acyclic reference graph sort_datapipelines returns a list that
\* holds every input pipeline exactly once and places every pipeline after
\* every pipeline it invokes directly or transitively; without references the
\* result is a permutation of the input of equal length.
C1_SortTopological ==
    (SortFinished /\ ~HasCycle) =>
        /\ sort_pc = "returned"
        /\ IsPermutationOfInput
        /\ \A p, q \in Range(sort_names) :
              InvokesTrans(p, q) => PositionOf(q) < PositionOf(p)
        /\ NoReferences => Len(sort_result) = Len(sort_names)

\* C1 witness: the chain 1 -> 2 -> 3, each invoke activity occurring twice, was
\* sorted into the reverse of its insertion order.
C1_Witness ==
    /\ sort_pc = "returned"
    /\ Len(sort_names) = 3
    /\ InvokesTrans(1, 3) /\ ~Invokes(1, 3)
    /\ Len(sort_refs[1]) = 2
    /\ sort_result = <<3, 2, 1>>

\* C2: when the reference graph has a cycle (a self-invocation included)
\* sort_datapipelines raises the cycle error and returns no list.
C2_SortCycleRaises ==
    (SortFinished /\ HasCycle) => (sort_pc = "raised" /\ sort_result = <<>>)

\* C2 witness: the sort raised on an input where a pipeline invokes itself.
C2_Witness ==
    /\ sort_pc = "raised"
    /\ \E p \in Range(sort_names) : Invokes(p, p)

(***************************************************************************)
(* The calls of a run.                                                     *)
(***************************************************************************)
\* The artifact keys a request of kind op was issued for.
CallKeys(op) == {KeyOf(calls[i].id) : i \in {j \in DOMAIN calls : calls[j].op = op}}

\* Positions in calls of the create/update requests for artifacts of the types T.
UpsertsOf(T) == {i \in DOMAIN calls : IsUpsert(calls[i]) /\ TypeOf(KeyOf(calls[i].id)) \in T}

PipelineUpserts == UpsertsOf({"DataPipeline"})

\* Artifact k had a successful create or update before position i of calls.
DeployedBefore(k, i) ==
    \E j \in DOMAIN calls : j < i /\ IsUpsert(calls[j]) /\ calls[j].ok /\ KeyOf(calls[j].id) = k

AllCallsSucceeded == \A i \in DOMAIN calls : calls[i].ok

Incremental == ws_existed /\ workspace_id = "existing" /\ ~is_deployment

CreatedHere == ~ws_existed /\ workspace_id # "none"

\* C6: a run that creates the workspace issues no item deletion request and
\* no deletion-confirmation poll, and goes from workspace creation through
\* the membership sync straight to deploy_artifacts (or fails).
C6_NewWorkspaceSkipsReconcile ==
    /\ [](~ws_existed =>
            /\ pc \notin {"list_items", "delete", "sleep", "poll"}
            /\ CallKeys("delete") = {}
            /\ deleted_ids = <<>> /\ items_to_confirm = {}
            /\ last_listing = {} /\ ~absent_seen)
    /\ [][(CreatedHere /\ pc = "add_sg" /\ pc' # pc)
            => pc' \in {"deploy_start", "cleanup", "raised"}]_vars

\* C6 witness: a run created the workspace and returned after creating a
\* lakehouse and two pipelines in it.
C6_Witness ==
    /\ pc = "returned"
    /\ workspace_id = "new"
    /\ {Lake1, Pipe(1), Pipe(2)} \subseteq CallKeys("create")

\* C7: once a create or update call has failed it is the last call of the run,
\* and the run is failing or has failed; it never returns.
C7_FailFast ==
    \A i \in DOMAIN calls :
        (IsUpsert(calls[i]) /\ ~calls[i].ok) =>
            /\ i = Len(calls)
            /\ pc \in {"cleanup", "raised"}
            /\ error.kind # "none"

\* C7 witness: the first of two pipelines failed to be created and the run
\* ended raised with the second pipeline never requested.
C7_Witness ==
    /\ pc = "raised"
    /\ Cardinality(PipelinesOf(repo)) = 2
    /\ Cardinality(PipelineUpserts) = 1
    /\ \E i \in PipelineUpserts : ~calls[i].ok

WsCallsOf(op) == {i \in DOMAIN ws_calls : ws_calls[i].op = op}

\* Position of the latest create request that was rejected (0 if none).
LastRejectedCreate ==
    LET R == {i \in WsCallsOf("create") : ws_calls[i].id = "none"}
    IN  IF R = {} THEN 0 ELSE CHOOSE i \in R : \A j \in R : j <= i

\* The lookups and enumerations create_workspace_with_fallback made since
\* its create request was rejected.
FallbackLookups == {i \in WsCallsOf("lookup") : LastRejectedCreate # 0 /\ i > LastRejectedCreate}
FallbackLists == {i \in WsCallsOf("list") : LastRejectedCreate # 0 /\ i > LastRejectedCreate}

\* C12: after a rejected create, create_workspace_with_fallback looks the name
\* up at most MaxLookupRetries times and enumerates at most once; it returns
\* the id a lookup or the enumeration found and raises only when none did.
C12_FallbackBounded ==
    variant = "wsutil" =>
        /\ Cardinality(FallbackLookups) <= MaxLookupRetries
        /\ Cardinality(FallbackLists) <= 1
        /\ (FallbackLookups # {} /\ Resolved) => workspace_id \in Present
        /\ error.kind = "WorkspaceUnresolvable" =>
              /\ \A i \in FallbackLookups : ws_calls[i].id \notin Present
              /\ FallbackLists # {}

CreatedWorkspace == \E i \in WsCallsOf("create") : ws_calls[i].id = "new"

\* C14: when a run that created its workspace has raised, delete_workspace
\* was attempted exactly once, on that workspace, and the error raised is the
\* one of the failed step, whether the deletion succeeded or not.
C14_CleanupThenReraise ==
    (pc = "raised" /\ CreatedWorkspace) =>
        /\ Cardinality(WsCallsOf("delete_workspace")) = 1
        /\ \A i \in WsCallsOf("delete_workspace") : ws_calls[i].id = "new"
        /\ error.kind \in {"SecurityGroupSyncFailed", "CreateFailed", "UpsertFailed",
                           "CyclicDependency", "UnresolvedReference",
                           "ListItemsFailed", "EnvironmentFailed"}

(***************************************************************************)
(* Claims about the operation polls (PollSpec).                            *)
(***************************************************************************)
TerminalStatuses == {"succeeded", "failed", "cancelled"}

\* The step issues a status request.
PollRequestStep == Len(observed') = Len(observed) + 1

\* C15: every poll of a long-running operation terminates: a status request
\* is issued only while less than the maximum total duration has elapsed,
\* and the step that observes a terminal status (succeeded, failed,
\* cancelled) ends the poll; it never polls forever.
C15_PollTerminates ==
    [][PollRequestStep =>
          /\ elapsed_time < maximum_duration
          /\ Lower(observed'[Len(observed')]) \in TerminalStatuses
                => poll_pc' \in {"returned", "raised"}]_vars

\* The status responses among the outcomes of the poll, in order.
StatusesObserved == SelectSeq(observed, LAMBDA o : o # "error")

\* C16: a poll that reaches its maximum duration without a terminal status
\* raises the timeout error carrying the last observed status, whatever the
\* poll outcomes (status responses, failed requests) and the maximum
\* duration were.
C16_TimeoutCarriesLastStatus ==
    (poll_fn = "env" /\ poll_pc = "raised") =>
        /\ poll_error.kind = "OperationTimedOut"
        /\ poll_error.last = IF StatusesObserved = <<>> THEN "none"
                             ELSE StatusesObserved[Len(StatusesObserved)]

\* C17: in poll_environment_publish_status the successive sleeps never
\* decrease and none exceeds max_poll_interval; a poll that observes Running
\* twice and then another state returns that state after exactly two sleeps.
C17_BackoffMonotoneCapped ==
    poll_fn = "env" =>
        /\ \A i \in DOMAIN sleeps : sleeps[i] <= max_poll_interval
        /\ \A i \in 1..(Len(sleeps) - 1) : sleeps[i] <= sleeps[i + 1]
        /\ (/\ Len(observed) = 3
            /\ observed[1] = "Running"
            /\ observed[2] = "Running"
            /\ observed[3] \notin {"Running", "error"})
              => /\ poll_pc = "returned"
                 /\ poll_result = observed[3]
                 /\ Len(sleeps) = 2

\* Running twice, then Succeeded, with a second sleep longer than the first.
C17_Witness ==
    /\ poll_fn = "env"
    /\ observed = <<"Running", "Running", "Succeeded">>
    /\ poll_pc = "returned"
    /\ poll_result = "Succeeded"
    /\ Len(sleeps) = 2
    /\ sleeps[1] < sleeps[2]
    /\ sleeps[2] = max_poll_interval

(***************************************************************************)
(* Claims about the token requests (TokenSpec).                            *)
(***************************************************************************)
\* every attempt made so far ended in a token or in a transient failure
OnlyTransientFailures ==
    \A i \in DOMAIN outcomes : outcomes[i] \in TransientOutcomes \cup {"ok"}

FailedAttempts == {i \in DOMAIN outcomes : outcomes[i] # "ok"}

\* C18: the token request is made at most max_retries times; after a
\* transient failure (network error, 5xx) on an attempt before the last the
\* function sleeps with exponential backoff and tries again; it returns at
\* the first attempt that succeeds; after max_retries failed attempts it
\* raises an error carrying the attempt count and the last error, and it
\* does not sleep after the last attempt.
C18_RetryTransient ==
    (max_retries > 0 /\ OnlyTransientFailures) =>
        /\ Len(outcomes) <= max_retries
        /\ \A i \in DOMAIN delays : delays[i] \in BackoffDelays(i - 1)
        /\ token_pc = "try" => /\ Len(delays) = Len(outcomes)
                               /\ FailedAttempts = DOMAIN outcomes
        /\ token_pc = "returned" =>
              /\ FailedAttempts = 1..(Len(outcomes) - 1)
              /\ Len(delays) = Len(outcomes) - 1
        /\ token_pc = "raised" =>
              /\ FailedAttempts = 1..max_retries
              /\ Len(delays) = max_retries - 1
              /\ token_error = [kind |-> "RetriesExhausted", attempts |-> max_retries,
                                last |-> outcomes[Len(outcomes)]]

\* C19: a non-transient failure (a 4xx response such as rejected
\* credentials) is not retried: the request is made exactly once and the
\* error reaches the caller.
C19_NonTransientNotRetried ==
    (token_fn = "spn" /\ outcomes # <<>> /\ outcomes[1] = "4xx") =>
        /\ Len(outcomes) = 1
        /\ token_pc = "raised"
        /\ delays = <<>>

(***************************************************************************)
(* Claim about the reported-output list (Spec).                            *)
(***************************************************************************)
\* The upsert request calls[i] succeeded.
SucceededUpserts == {i \in DOMAIN calls : IsUpsert(calls[i]) /\ calls[i].ok}

\* guids holds a record for the artifact and the id of calls[i].
Recorded(i) ==
    \E j \in DOMAIN guids : guids[j] = GuidRecord(KeyOf(calls[i].id), calls[i].id)

\* C20: guids is append-only during a run (no record is removed or
\* reordered), and whenever an upsert of an artifact has succeeded one
\* record for that artifact has been appended, lakehouses and eventhouses
\* included, in the order the artifacts were touched.
C20_GuidsAppendOnlyComplete ==
    /\ [][/\ Len(guids') >= Len(guids)
          /\ SubSeq(guids', 1, Len(guids)) = guids]_vars
    /\ [](/\ \A i \in SucceededUpserts : Recorded(i)
          /\ \A i, j \in SucceededUpserts :
                i < j => \E a, b \in DOMAIN guids :
                            /\ a < b
                            /\ guids[a] = GuidRecord(KeyOf(calls[i].id), calls[i].id)
                            /\ guids[b] = GuidRecord(KeyOf(calls[j].id), calls[j].id))

(***************************************************************************)
(* Claims about the run as a whole (Spec).                                 *)
(***************************************************************************)
\* C21: the orchestrator returns normally only if every step succeeded: an
\* error raised during workspace resolution, membership sync, item
\* deletion, deletion confirmation or artifact deployment, on either path,
\* takes the run to its raise and never to a normal return.
C21_ReturnsOnlyOnSuccess ==
    /\ pc = "returned" => /\ error = NoError
                          /\ \A i \in DOMAIN calls : calls[i].ok
    /\ error # NoError => pc \in {"cleanup", "raised"}

\* An artifact upsert failed on the existing-workspace path of
\* workspace_utilities.py and the run raised.
C21_Witness ==
    /\ variant = "wsutil"
    /\ workspace_id = "existing"
    /\ ~is_deployment
    /\ pc = "raised"
    /\ error.kind = "UpsertFailed"

(***************************************************************************)
(* Claim about delete_old_items (DeleteSpec).                              *)
(***************************************************************************)
\* delete_old_items has returned to the orchestrator.
DeleteReturned == pc \in {"poll", "sleep", "deploy_start"}

\* C22: delete_old_items issues exactly one delete request for each item it
\* is given, in list order, never more than RateLimitBatch consecutive
\* requests without a rate-limit pause, and stops at the first failed
\* request without deleting the remaining items.
C22_DeleteOncePacedFailFast ==
    /\ since_pause <= RateLimitBatch
    /\ Len(calls) <= Len(items)
    /\ \A i \in DOMAIN calls : calls[i].op = "delete" /\ calls[i].id = items[i]
    /\ \A i \in DOMAIN calls : ~calls[i].ok => (i = Len(calls) /\ pc = "raised")
    /\ DeleteReturned => (Len(calls) = Len(items) /\ deleted_ids = items)
    /\ pc = "raised" => /\ ~calls[Len(calls)].ok
                        /\ live = Range(items) \ Range(deleted_ids)
                        /\ Len(deleted_ids) = Len(calls) - 1

\* 61 items: the request of the 45th failed after one pause, and sixteen
\* items were left alone.
C22_Witness ==
    /\ Len(items) = 61
    /\ pc = "raised"
    /\ Len(calls) = 45
    /\ since_pause = 15
    /\ Cardinality(live) = 17

\* The latest create request was answered 202 and nothing has polled its
\* operation (no step of the run does).
CreationInProgress == create_status = "202"

\* C23: when a create call is answered 202 (accepted, in progress) the
\* operation is polled to a terminal status before the artifact is recorded
\* as created and before the next artifact is upserted.
C23_AcceptedCreateIsPolled ==
    /\ [](CreationInProgress =>
             \A j \in DOMAIN guids : guids[j].artifact_guid # calls[Len(calls)].id)
    /\ [][CreationInProgress => Len(calls') = Len(calls)]_vars

\* C24: a caller-supplied deadline or cancellation signal is observed at the
\* start of every retry attempt (and at every poll iteration): once the
\* signal is raised no further attempt is made.
C24_CancellationObserved ==
    [][cancel_signal => Len(outcomes') = Len(outcomes)]_vars

(***************************************************************************)
(* Claim about find_referenced_datapipelines (FindSpec).                   *)
(***************************************************************************)
\* The pipeline an activity of the chain refers to, by the activity's type
\* and id.
ReferencedBy(a) ==
    IF a.type \in {"ExecutePipeline", "InvokePipeline"}
    THEN (CASE a.id = "id1" -> "P1" [] a.id = "id2" -> "P2" [] OTHER -> "none")
    ELSE "none"

\* C25: find_referenced_datapipelines yields a reference for every
\* ExecutePipeline / InvokePipeline activity of the body whose id resolves to
\* a pipeline name, at whatever depth it is nested (an invoke activity
\* inside the properties of another one included); none is skipped.
C25_EveryNestedReferenceFound ==
    find_pc = "returned" =>
        \A name \in {"P1", "P2"} :
            CountIn(name, reference_list) =
                Cardinality({i \in DOMAIN activity_chain :
                                ReferencedBy(activity_chain[i]) = name})

\* An invoke activity inside an invoke activity, with an execute activity
\* inside that: three references, two of them to the same pipeline.
C25_Witness ==
    /\ find_pc = "returned"
    /\ activity_chain = << [type |-> "InvokePipeline", id |-> "id1"],
                           [type |-> "InvokePipeline", id |-> "id2"],
                           [type |-> "ExecutePipeline", id |-> "id1"] >>
    /\ reference_list = <<"P1", "P2", "P1">>

(***************************************************************************)
(* Claim about the order sort_datapipelines emits (SortSpec).              *)
(***************************************************************************)
\* Place of p in the insertion order of the input map.
InputIndex(p) == CHOOSE i \in DOMAIN sort_names : sort_names[i] = p

\* The position in the list r at which p became ready: the position of the
\* last of the pipelines it references, 0 when it references none.
ReadyAt(r, p) ==
    LET at == {i \in DOMAIN r : Invokes(p, r[i])}
    IN  IF at = {} THEN 0 ELSE CHOOSE i \in at : \A j \in at : j <= i

\* r lists every input pipeline once, first in first out: by the position
\* at which each became ready, and by insertion order among those that
\* became ready together.
IsFifoOrder(r) ==
    /\ Len(r) = Len(sort_names)
    /\ Range(r) = Range(sort_names)
    /\ \A i, j \in DOMAIN r :
          i < j => \/ ReadyAt(r, r[i]) < ReadyAt(r, r[j])
                   \/ /\ ReadyAt(r, r[i]) = ReadyAt(r, r[j])
                      /\ InputIndex(r[i]) < InputIndex(r[j])

\* C26: sort_datapipelines is deterministic: the list it returns is the one
\* list the input (map and insertion order) determines, with the pipelines
\* without dependencies in input order and every pipeline that becomes ready
\* behind all that became ready before it.
C26_SortDeterministicFifo ==
    sort_pc = "returned" =>
        /\ IsFifoOrder(sort_result)
        /\ \A r \in [DOMAIN sort_names -> Range(sort_names)] :
              IsFifoOrder(r) => r = sort_result
        /\ \A i, j \in DOMAIN sort_result :
              (/\ sort_refs[sort_result[i]] = <<>>
               /\ sort_refs[sort_result[j]] = <<>>
               /\ InputIndex(sort_result[i]) < InputIndex(sort_result[j])) => i < j

\* Pipelines 1 and 3 reference nothing and pipeline 2 references 3: 1 and 3
\* come out in input order, then 2.
C26_Witness ==
    /\ sort_pc = "returned"
    /\ Len(sort_names) = 3
    /\ sort_refs[1] = <<>>
    /\ sort_refs[3] = <<>>
    /\ Invokes(2, 3)
    /\ sort_result = <<1, 3, 2>>

\* poll_item_deletion_status returns to the orchestrator in this step.
PollReturns == pc = "poll" /\ pc' = "deploy_start"

C28_DeletesOnlyCreatedWorkspace ==
    \A i \in WsCallsOf("delete_workspace") :
        \E j \in WsCallsOf("create") :
            /\ j < i
            /\ ws_calls[j].id # "none"
            /\ ws_calls[j].id = ws_calls[i].id

EnvOrder == <<"create", "publish", "poll", "set_default">>

DefaultUpdated == \E i \in DOMAIN env_calls : env_calls[i] = "set_default"

\* C30: deploy_custom_environment issues create, publish, poll and
\* set-default strictly in that order (what it has issued is always a prefix
\* of that list), and the default-environment update is issued only after
\* the poll returned the status "success" (in any letter case); after any
\* other returned status (failed, cancelled, a missing state) it raises and
\* the update is never issued.
C30_EnvironmentOrderAndGate ==
    /\ Len(env_calls) <= Len(EnvOrder)
    /\ \A i \in DOMAIN env_calls : env_calls[i] = EnvOrder[i]
    /\ DefaultUpdated => (publish_status # "unset" /\ Lower(publish_status) = "success")
    /\ (publish_status # "unset" /\ Lower(publish_status) # "success") =>
          /\ ~DefaultUpdated
          /\ pc \in {"raised", "cleanup"}
          /\ error.kind = "EnvironmentFailed"

\* A run whose publish poll returned "Success" has issued all four requests
\* and returned.
C30_Witness ==
    /\ pc = "returned"
    /\ env_calls = EnvOrder
    /\ publish_status = "Success"

=============================================================================
